---- MODULE Spec2Model ----
(***************************************************************************)
(* Structured JSON logging of the frontend / backend demo services         *)
(* (app/src/backend/main.py, app/src/frontend/main.py): module             *)
(* initialisation of the root logger, parse_resource_attributes,           *)
(* JsonFormatter.format, and the route handlers' logging calls.            *)
(*                                                                         *)
(* Python str values are TLA+ strings; a dict is the sequence of its       *)
(* <<key, value>> items in insertion order; a JSON scalar is a record      *)
(* [kind, text] so that an integer and a string of the same digits differ. *)
(***************************************************************************)
EXTENDS Integers, Sequences, FiniteSets, TLC

VARIABLES
    app,            \* which service's main.py runs: "backend" or "frontend"
    env,            \* os.environ: the variables the module reads
    mpc,            \* position of module initialisation (import of main.py)
    root_handlers,  \* logging.getLogger().handlers
    root_level,     \* logging.getLogger().level
    factory,        \* the installed LogRecord factory
    provider_name,  \* service.name of the tracer provider's resource
    RESOURCE_ATTRS, \* module constant of line 74
    tpc,            \* per request thread: position inside the logging call
    record,         \* per thread: the LogRecord being handled
    span,           \* per thread: whether a trace span was active at the call
    todo,           \* per thread: root handlers still to be called
    payload,        \* payload dicts of the running format calls
    built,          \* per thread: the payload dict format serialised
    formatted,      \* per thread: format calls made for the current event
    exported,       \* per thread: deliveries to the OTLP LoggingHandler
    raw,            \* argument of a parse_resource_attributes call
    parsed,         \* the dict it returned
    ppc             \* whether that call has returned

vars == <<app, env, mpc, root_handlers, root_level, factory, provider_name,
          RESOURCE_ATTRS, tpc, record, span, todo, payload, built, formatted,
          exported, raw, parsed, ppc>>

initVars == <<app, env, mpc, root_handlers, root_level, factory, provider_name>>

callVars == <<tpc, record, span, todo, payload, built, formatted, exported>>

parseVars == <<raw, parsed, ppc>>

-----------------------------------------------------------------------------
(* Bounds *)

\* longest configuration string given to parse_resource_attributes
MaxRawLen == 7

\* request threads that may log at the same time
NThreads == 2

\* most attributes a hand-built LogRecord carries beside the standard ones
MaxExtra == 2

-----------------------------------------------------------------------------
(* Python str and dict primitives *)

Min(S) == CHOOSE x \in S : \A y \in S : x <= y

Max(S) == CHOOSE x \in S : \A y \in S : y <= x

Char(s, i) == SubSeq(s, i, i)

\* str.find(c): index of the first occurrence, 0 when there is none
RECURSIVE FindFrom(_, _, _)
FindFrom(s, c, i) ==
    IF i > Len(s) THEN 0
    ELSE IF Char(s, i) = c THEN i
    ELSE FindFrom(s, c, i + 1)

Find(s, c) == FindFrom(s, c, 1)

\* c in s
Contains(s, c) == Find(s, c) # 0

\* s.split(sep): every separator cuts, empty segments are kept
RECURSIVE Split(_, _)
Split(s, sep) ==
    LET i == Find(s, sep)
    IN  IF i = 0 THEN <<s>>
        ELSE <<SubSeq(s, 1, i - 1)>> \o Split(SubSeq(s, i + 1, Len(s)), sep)

RECURSIVE FindLastFrom(_, _, _)
FindLastFrom(s, c, i) ==
    IF i = 0 THEN 0
    ELSE IF Char(s, i) = c THEN i
    ELSE FindLastFrom(s, c, i - 1)

SplitLast(s, sep) ==
    LET i == FindLastFrom(s, sep, Len(s))
    IN  <<SubSeq(s, 1, i - 1), SubSeq(s, i + 1, Len(s))>>

\* s.split(sep, 1) of a string that contains sep: cut at the first one only
SplitFirst(s, sep) ==
    LET i == Find(s, sep)
    IN  <<SubSeq(s, 1, i - 1), SubSeq(s, i + 1, Len(s))>>

RECURSIVE LStrip(_)
LStrip(s) ==
    IF Len(s) > 0 /\ Char(s, 1) = " " THEN LStrip(SubSeq(s, 2, Len(s))) ELSE s

RECURSIVE RStrip(_)
RStrip(s) ==
    IF Len(s) > 0 /\ Char(s, Len(s)) = " "
    THEN RStrip(SubSeq(s, 1, Len(s) - 1)) ELSE s

\* s.strip()
Strip(s) == RStrip(LStrip(s))

\* s.startswith(prefix)
StartsWith(s, prefix) ==
    Len(s) >= Len(prefix) /\ SubSeq(s, 1, Len(prefix)) = prefix

\* key in d
DictHas(d, k) == \E i \in 1..Len(d) : d[i][1] = k

\* d.get(k, default), getattr(obj, k, default)
DictGet(d, k, default) ==
    IF DictHas(d, k)
    THEN d[CHOOSE i \in 1..Len(d) : d[i][1] = k][2]
    ELSE default

\* d[k] = v: a present key keeps its place, a new key goes last
DictSet(d, k, v) ==
    IF DictHas(d, k)
    THEN [i \in 1..Len(d) |-> IF d[i][1] = k THEN <<k, v>> ELSE d[i]]
    ELSE Append(d, <<k, v>>)

DictKeys(d) == {d[i][1] : i \in 1..Len(d)}

-----------------------------------------------------------------------------
(* parse_resource_attributes (backend/main.py 61-71) *)

\* the for loop of lines 65-70 over the parts still to visit
RECURSIVE ParseParts(_, _)
ParseParts(parts, attrs) ==
    IF parts = <<>> THEN attrs
    ELSE LET part == Strip(Head(parts))
         IN  IF part = "" \/ ~Contains(part, "=")
             THEN ParseParts(Tail(parts), attrs)
             ELSE LET kv == SplitFirst(part, "=")
                  IN  ParseParts(Tail(parts),
                                 DictSet(attrs, Strip(kv[1]), Strip(kv[2])))

parse_resource_attributes(r) ==
    IF r = "" THEN <<>> ELSE ParseParts(Split(r, ","), <<>>)

-----------------------------------------------------------------------------
(* Values, the environment, the logging levels *)

S(x) == [kind |-> "str", text |-> x]

I(x) == [kind |-> "int", text |-> x]

Other(x) == [kind |-> "other", text |-> x]

\* Python truth of a value, as the `or` of line 79 tests it
Truthy(v) ==
    ~(v.text = "" \/ v.text = "None" \/ (v.kind = "int" /\ v.text = "0"))

\* os.getenv(name, default)
Getenv(e, name, default) == DictGet(e, name, default)

Apps == {"backend", "frontend"}

\* the default of os.getenv("OTEL_SERVICE_NAME", ...) at lines 56 and 79
DefaultServiceName(a) == a

\* nothing set: every os.getenv of the module takes its default
DefaultEnv == <<>>

ProdEnv ==
    << <<"OTEL_SERVICE_NAME", "shop">>,
       <<"OTEL_RESOURCE_ATTRIBUTES",
         "service.version=1.2, deployment.environment=prod">>,
       <<"HOSTNAME", "pod-1">> >>

\* a resource-attribute string with a malformed segment and a repeated key
DupEnv ==
    << <<"OTEL_RESOURCE_ATTRIBUTES",
         "service.namespace=demo,service.version=1,bad,service.version=2">>,
       <<"HOSTNAME", "pod-2">> >>

NOTSET == 0

INFO == 20

WARNING == 30

LevelNo(name) == IF name = "WARNING" THEN WARNING ELSE INFO

\* the handlers this module creates
OtlpHandler == [kind |-> "OTLP", level |-> INFO]

JsonHandler == [kind |-> "JSON", level |-> NOTSET]

BasicHandler == [kind |-> "basic", level |-> NOTSET]

-----------------------------------------------------------------------------
(* LogRecord *)

\* A LogRecord is kept as the arguments of its constructor, the attributes
\* the record factory added (otel) and those Logger.makeRecord added from
\* the call's extra= mapping (extra)
NoRecord ==
    [name |-> "", levelname |-> "", msg |-> "", created |-> 0,
     otel |-> <<>>, extra |-> <<>>]

\* the attributes LogRecord.__init__ sets, which format reads at lines 82-84
\* and meets again in record.__dict__ at line 94
LogRecordInit(name, levelname, msg, created) ==
    << <<"name", S(name)>>, <<"msg", S(msg)>>, <<"args", Other("()")>>,
       <<"levelname", S(levelname)>>,
       <<"levelno", I(ToString(LevelNo(levelname)))>>,
       <<"pathname", S("/app/main.py")>>, <<"filename", S("main.py")>>,
       <<"module", S("main")>>, <<"exc_info", Other("None")>>,
       <<"exc_text", Other("None")>>, <<"stack_info", Other("None")>>,
       <<"lineno", I("137")>>, <<"funcName", S("api")>>,
       <<"created", I(ToString(created))>>, <<"msecs", I("0")>>,
       <<"relativeCreated", I("1")>>, <<"thread", I("1")>>,
       <<"threadName", S("AnyIO worker thread")>>,
       <<"processName", S("MainProcess")>>, <<"process", I("1")>> >>

\* record.__dict__, in insertion order
RecordDict(r) ==
    LogRecordInit(r.name, r.levelname, r.msg, r.created) \o r.otel \o r.extra

\* the record factory LoggingInstrumentor().instrument installs (line 59): it
\* sets the four otel* attributes on every record, "0" ids without a span
OtelAttributes(active, svc) ==
    << <<"otelSpanID", S(IF active THEN "def456" ELSE "0")>>,
       <<"otelTraceID", S(IF active THEN "abc123" ELSE "0")>>,
       <<"otelTraceSampled", Other(IF active THEN "True" ELSE "False")>>,
       <<"otelServiceName", S(svc)>> >>

RecordFactory(f, name, levelname, msg, created, active, svc) ==
    [name |-> name, levelname |-> levelname, msg |-> msg, created |-> created,
     otel |-> IF f = "otel" THEN OtelAttributes(active, svc) ELSE <<>>,
     extra |-> <<>>]

\* Logger.makeRecord: the extra= mapping goes into the record's __dict__
MakeRecord(rv, extra) == [rv EXCEPT !.extra = extra]

-----------------------------------------------------------------------------
(* JsonFormatter.format (backend/main.py 78-102, frontend/main.py 76-100) *)

FixedFields ==
    <<"@timestamp", "log.level", "message", "logger.name", "trace.id",
      "span.id", "service.name", "service.version", "service.namespace",
      "deployment.environment", "host.name", "event.dataset">>

FixedNames == {FixedFields[i] : i \in 1..Len(FixedFields)}

\* the tuple of lines 97-99
Denylist ==
    {"args", "msg", "levelname", "levelno", "pathname", "filename", "module",
     "exc_info", "exc_text", "stack_info", "lineno", "funcName", "created",
     "msecs", "relativeCreated", "thread", "threadName", "processName",
     "process"}

\* self.formatTime(record, datefmt=...) of line 81
FormatTime(d) == S("T" \o DictGet(d, "created", I("0")).text \o "Z")

\* record.getMessage() of line 83, the record's args being empty
GetMessage(d) == S(DictGet(d, "msg", S("")).text)

ServiceNameStaticFirst(d, e, a) ==
    IF DictHas(e, "OTEL_SERVICE_NAME") \/ ~DictHas(d, "otelServiceName")
    THEN S(Getenv(e, "OTEL_SERVICE_NAME", a))
    ELSE DictGet(d, "otelServiceName", S(""))

\* line 79
ServiceName(d, e, a) ==
    LET override == DictGet(d, "otelServiceName", S(""))
    IN  IF Truthy(override) THEN override
        ELSE S(Getenv(e, "OTEL_SERVICE_NAME", DefaultServiceName(a)))

\* RESOURCE_ATTRS.get(key, "") of lines 88-90
ResourceGet(attrs, key) == S(DictGet(attrs, key, ""))

DatasetOfProcess(svc) == S("backend.log")

\* f"{service_name}.log" of line 92
Dataset(svc) == S(svc.text \o ".log")

\* the dict display of lines 80-93
FixedPayload(d, svc, attrs, e) ==
    << <<"@timestamp", FormatTime(d)>>,
       <<"log.level", DictGet(d, "levelname", S(""))>>,
       <<"message", GetMessage(d)>>,
       <<"logger.name", DictGet(d, "name", S(""))>>,
       <<"trace.id", DictGet(d, "otelTraceID", S(""))>>,
       <<"span.id", DictGet(d, "otelSpanID", S(""))>>,
       <<"service.name", svc>>,
       <<"service.version", ResourceGet(attrs, "service.version")>>,
       <<"service.namespace", ResourceGet(attrs, "service.namespace")>>,
       <<"deployment.environment", ResourceGet(attrs, "deployment.environment")>>,
       <<"host.name", S(Getenv(e, "HOSTNAME", ""))>>,
       <<"event.dataset", Dataset(svc)>> >>

SkippedNoCollision(p, key) ==
    \/ StartsWith(key, "otel")
    \/ key \in Denylist

SkippedNoPrefix(p, key) ==
    \/ DictHas(p, key)
    \/ key \in Denylist

\* the tests of lines 95 and 97-99: whether the loop skips the key
Skipped(p, key) ==
    \/ DictHas(p, key)
    \/ StartsWith(key, "otel")
    \/ key \in Denylist

\* the loop of lines 94-101 over the items still to visit
RECURSIVE Extend(_, _)
Extend(p, items) ==
    IF items = <<>> THEN p
    ELSE LET key == Head(items)[1]
             value == Head(items)[2]
         IN  IF Skipped(p, key)
             THEN Extend(p, Tail(items))
             ELSE Extend(DictSet(p, key, value), Tail(items))

-----------------------------------------------------------------------------
(* Module initialisation (backend/main.py 56-59, 74, 105-109) *)

Threads == 1..NThreads

IdleCalls ==
    /\ tpc = [t \in Threads |-> "idle"]
    /\ record = [t \in Threads |-> NoRecord]
    /\ span = [t \in Threads |-> FALSE]
    /\ todo = [t \in Threads |-> <<>>]
    /\ payload = [t \in Threads |-> <<>>]
    /\ built = [t \in Threads |-> <<>>]
    /\ formatted = [t \in Threads |-> 0]
    /\ exported = [t \in Threads |-> 0]

NoParseCall == raw = "" /\ parsed = <<>> /\ ppc = "unused"

Init ==
    /\ app \in Apps
    /\ env \in {DefaultEnv, ProdEnv}
    /\ mpc = "setup_otel"
    /\ root_handlers = <<>>
    /\ root_level = WARNING
    /\ factory = "default"
    /\ provider_name = ""
    /\ RESOURCE_ATTRS = <<>>
    /\ IdleCalls
    /\ NoParseCall

\* setup_otel(os.getenv("OTEL_SERVICE_NAME", ...)), line 56: the resource is
\* created with the service name (29-32), the OTLP LoggingHandler is added to
\* the root logger (44-45), whose level becomes INFO (46)
setup_otel ==
    /\ mpc = "setup_otel"
    /\ provider_name' = Getenv(env, "OTEL_SERVICE_NAME", DefaultServiceName(app))
    /\ root_handlers' = Append(root_handlers, OtlpHandler)
    /\ root_level' = INFO
    /\ mpc' = "instrument"
    /\ UNCHANGED <<app, env, factory, RESOURCE_ATTRS>>
    /\ UNCHANGED callVars
    /\ UNCHANGED parseVars

\* lines 57-59: LoggingInstrumentor().instrument(set_logging_format=True)
\* installs the record factory and calls logging.basicConfig, which
\* configures the root logger only when it has no handler yet
instrument ==
    /\ mpc = "instrument"
    /\ factory' = "otel"
    /\ IF root_handlers = <<>>
       THEN root_handlers' = <<BasicHandler>> /\ root_level' = INFO
       ELSE UNCHANGED <<root_handlers, root_level>>
    /\ mpc' = "resource_attrs"
    /\ UNCHANGED <<app, env, provider_name, RESOURCE_ATTRS>>
    /\ UNCHANGED callVars
    /\ UNCHANGED parseVars

\* line 74
init_resource_attrs ==
    /\ mpc = "resource_attrs"
    /\ RESOURCE_ATTRS' =
           parse_resource_attributes(Getenv(env, "OTEL_RESOURCE_ATTRIBUTES", ""))
    /\ mpc' = "handlers"
    /\ UNCHANGED <<app, env, root_handlers, root_level, factory, provider_name>>
    /\ UNCHANGED callVars
    /\ UNCHANGED parseVars

AssignHandlersAppend(hs) == Append(hs, JsonHandler)

\* root_logger.handlers = [handler], line 108
AssignHandlers(hs) == <<JsonHandler>>

\* lines 105-109
init_root_logger ==
    /\ mpc = "handlers"
    /\ root_handlers' = AssignHandlers(root_handlers)
    /\ root_level' = INFO
    /\ mpc' = "serving"
    /\ UNCHANGED <<app, env, factory, provider_name, RESOURCE_ATTRS>>
    /\ UNCHANGED callVars
    /\ UNCHANGED parseVars

-----------------------------------------------------------------------------
(* The route handlers' logging calls *)

Site(level, msg, keys) == [level |-> level, msg |-> msg, keys |-> keys]

\* logger.info / logger.warning calls: backend/main.py 137, 153, 168, 170,
\* 184, 199, 201, 213; frontend/main.py 123, 142
CallSites(a) ==
    IF a = "backend"
    THEN { Site("INFO", "backend api", <<"hits", "latency_ms">>),
           Site("INFO", "item created", <<"key", "latency_ms">>),
           Site("WARNING", "item not found", <<"key">>),
           Site("INFO", "item fetched", <<"key", "latency_ms">>),
           Site("INFO", "item updated", <<"key", "latency_ms">>),
           Site("WARNING", "item delete miss", <<"key">>),
           Site("INFO", "item deleted", <<"key", "latency_ms">>),
           Site("INFO", "slow request", <<"delay_ms">>) }
    ELSE { Site("INFO", "frontend index", <<"backend_hits", "latency_ms">>),
           Site("INFO", "frontend simulate complete", <<>>) }

\* the value the request served by worker n gives an attribute: an item key
\* is a string, a counter or a duration is an integer
ExtraValue(key, n) ==
    IF key = "key" THEN S("item" \o ToString(n)) ELSE I(ToString(n))

Extras(keys, n) == [i \in 1..Len(keys) |-> <<keys[i], ExtraValue(keys[i], n)>>]

\* Logger.callHandlers from the handlers still to be called: a handler takes
\* the record when the record's level reaches the handler's; the OTLP
\* LoggingHandler exports it, the StreamHandler of line 105 calls its
\* formatter, where the walk stops until format returns
RECURSIVE CallHandlers(_, _, _)
CallHandlers(hs, levelno, n) ==
    IF hs = <<>> THEN [tpc |-> "done", todo |-> <<>>, exported |-> n]
    ELSE IF levelno >= Head(hs).level /\ Head(hs).kind = "JSON"
    THEN [tpc |-> "format", todo |-> hs, exported |-> n]
    ELSE CallHandlers(Tail(hs), levelno,
                      IF levelno >= Head(hs).level /\ Head(hs).kind = "OTLP"
                      THEN n + 1 ELSE n)

\* logger.info(msg, extra=...) in a route handler: the level test, the
\* record, and Logger.callHandlers over the root's handlers
Emit(t) ==
    /\ mpc = "serving"
    /\ tpc[t] = "idle"
    /\ \E site \in CallSites(app), active \in BOOLEAN :
          LET walk == CallHandlers(root_handlers, LevelNo(site.level), 0)
          IN  /\ LevelNo(site.level) >= root_level
              /\ record' = [record EXCEPT ![t] =
                     MakeRecord(RecordFactory(factory, app, site.level, site.msg,
                                              t, active, provider_name),
                                Extras(site.keys, t))]
              /\ span' = [span EXCEPT ![t] = active]
              /\ todo' = [todo EXCEPT ![t] = walk.todo]
              /\ tpc' = [tpc EXCEPT ![t] = walk.tpc]
              /\ exported' = [exported EXCEPT ![t] = walk.exported]
    /\ formatted' = [formatted EXCEPT ![t] = 0]
    /\ UNCHANGED <<payload, built>>
    /\ UNCHANGED initVars
    /\ UNCHANGED RESOURCE_ATTRS
    /\ UNCHANGED parseVars

PayloadSlotShared(t) == 1

\* payload = {...} of line 80 binds a local of the call: every format call
\* has a payload dict of its own
PayloadSlot(t) == t

ResourceAttrsSetdefault ==
    RESOURCE_ATTRS' =
        IF DictHas(RESOURCE_ATTRS, "service.namespace") THEN RESOURCE_ATTRS
        ELSE Append(RESOURCE_ATTRS, <<"service.namespace", "">>)

\* lines 88-90 only read RESOURCE_ATTRS
ResourceAttrsRead == UNCHANGED RESOURCE_ATTRS

\* format, lines 79-93
FormatFixed(t) ==
    /\ tpc[t] = "format"
    /\ LET d == RecordDict(record[t])
       IN  payload' = [payload EXCEPT ![PayloadSlot(t)] =
              FixedPayload(d, ServiceName(d, env, app), RESOURCE_ATTRS, env)]
    /\ ResourceAttrsRead
    /\ tpc' = [tpc EXCEPT ![t] = "loop"]
    /\ UNCHANGED <<record, span, todo, built, formatted, exported>>
    /\ UNCHANGED initVars
    /\ UNCHANGED parseVars

\* format, lines 94-102: the loop over record.__dict__, the payload handed
\* to json.dumps, and the return to callHandlers, which ends the life of the
\* local payload
FormatReturn(t) ==
    /\ tpc[t] = "loop"
    /\ built' = [built EXCEPT ![t] =
           Extend(payload[PayloadSlot(t)], RecordDict(record[t]))]
    /\ payload' = [payload EXCEPT ![PayloadSlot(t)] = <<>>]
    /\ formatted' = [formatted EXCEPT ![t] = formatted[t] + 1]
    /\ LET walk == CallHandlers(Tail(todo[t]), LevelNo(record[t].levelname),
                                exported[t])
       IN  /\ todo' = [todo EXCEPT ![t] = walk.todo]
           /\ tpc' = [tpc EXCEPT ![t] = walk.tpc]
           /\ exported' = [exported EXCEPT ![t] = walk.exported]
    /\ UNCHANGED <<record, span>>
    /\ UNCHANGED initVars
    /\ UNCHANGED RESOURCE_ATTRS
    /\ UNCHANGED parseVars

\* the logging call returns to the route handler
Finish(t) ==
    /\ tpc[t] = "done"
    /\ tpc' = [tpc EXCEPT ![t] = "idle"]
    /\ record' = [record EXCEPT ![t] = NoRecord]
    /\ span' = [span EXCEPT ![t] = FALSE]
    /\ built' = [built EXCEPT ![t] = <<>>]
    /\ formatted' = [formatted EXCEPT ![t] = 0]
    /\ exported' = [exported EXCEPT ![t] = 0]
    /\ UNCHANGED <<todo, payload>>
    /\ UNCHANGED initVars
    /\ UNCHANGED RESOURCE_ATTRS
    /\ UNCHANGED parseVars

Next ==
    \/ setup_otel
    \/ instrument
    \/ init_resource_attrs
    \/ init_root_logger
    \/ \E t \in Threads : Emit(t)
    \/ \E t \in Threads : FormatFixed(t)
    \/ \E t \in Threads : FormatReturn(t)
    \/ \E t \in Threads : Finish(t)

Spec == Init /\ [][Next]_vars

-----------------------------------------------------------------------------
(* JsonFormatter.format on any LogRecord *)

\* attributes a caller may put on a record: every fixed field name, keys
\* with and without the otel prefix, plain ones
ExtraPool ==
    [i \in 1..Len(FixedFields) |-> <<FixedFields[i], S("caller " \o FixedFields[i])>>]
    \o << <<"otelFoo", S("x")>>, <<"hotel", S("inn")>>, <<"hits", I("5")>>,
          <<"key", S("alpha")>> >>

ExtraChoices ==
    { LET Chosen(item) == item[1] \in ks IN SelectSeq(ExtraPool, Chosen) :
        ks \in {x \in SUBSET DictKeys(ExtraPool) : Cardinality(x) <= MaxExtra} }

OtelChoices ==
    { ids \o svc :
        ids \in { <<>>,
                  << <<"otelSpanID", S("0")>>, <<"otelTraceID", S("0")>> >>,
                  << <<"otelSpanID", S("def456")>>, <<"otelTraceID", S("abc123")>> >> },
        svc \in { <<>>,
                  << <<"otelServiceName", S("")>> >>,
                  << <<"otelServiceName", S("edge")>> >> } }

\* the state module initialisation ends in
InitFormat ==
    /\ app \in Apps
    /\ env \in {DefaultEnv, ProdEnv, DupEnv}
    /\ mpc = "serving"
    /\ root_handlers = <<JsonHandler>>
    /\ root_level = INFO
    /\ factory = "otel"
    /\ provider_name = Getenv(env, "OTEL_SERVICE_NAME", DefaultServiceName(app))
    /\ RESOURCE_ATTRS =
           parse_resource_attributes(Getenv(env, "OTEL_RESOURCE_ATTRIBUTES", ""))
    /\ IdleCalls
    /\ NoParseCall

\* the StreamHandler of line 105 is handed a record built by any caller
DirectFormat(t) ==
    /\ mpc = "serving"
    /\ tpc[t] = "idle"
    /\ \E o \in OtelChoices, x \in ExtraChoices :
          record' = [record EXCEPT ![t] =
              [name |-> app, levelname |-> "INFO", msg |-> "hello",
               created |-> 1, otel |-> o, extra |-> x]]
    /\ todo' = [todo EXCEPT ![t] = <<JsonHandler>>]
    /\ tpc' = [tpc EXCEPT ![t] = "format"]
    /\ UNCHANGED <<span, payload, built, formatted, exported>>
    /\ UNCHANGED initVars
    /\ UNCHANGED RESOURCE_ATTRS
    /\ UNCHANGED parseVars

NextFormat ==
    \/ DirectFormat(1)
    \/ FormatFixed(1)
    \/ FormatReturn(1)
    \/ Finish(1)

SpecFormat == InitFormat /\ [][NextFormat]_vars

-----------------------------------------------------------------------------
(* parse_resource_attributes on any configuration string *)

Alphabet == {"a", "=", ",", " "}

RECURSIVE StringsOfLen(_)
StringsOfLen(n) ==
    IF n = 0 THEN {""}
    ELSE {s \o c : s \in StringsOfLen(n - 1), c \in Alphabet}

RawInputs ==
    UNION {StringsOfLen(n) : n \in 0..MaxRawLen} \cup {"a=1,b=2", "bad,,x="}

InitParse ==
    /\ raw \in RawInputs
    /\ parsed = <<>>
    /\ ppc = "call"
    /\ app = "backend"
    /\ env = DefaultEnv
    /\ mpc = "setup_otel"
    /\ root_handlers = <<>>
    /\ root_level = WARNING
    /\ factory = "default"
    /\ provider_name = ""
    /\ RESOURCE_ATTRS = <<>>
    /\ IdleCalls

CallParse ==
    /\ ppc = "call"
    /\ parsed' = parse_resource_attributes(raw)
    /\ ppc' = "returned"
    /\ UNCHANGED raw
    /\ UNCHANGED initVars
    /\ UNCHANGED callVars
    /\ UNCHANGED RESOURCE_ATTRS

NextParse == CallParse

SpecParse == InitParse /\ [][NextParse]_vars

-----------------------------------------------------------------------------
(* Properties *)

\* format has returned to thread t's logging call
Returned(t) == tpc[t] = "done" /\ formatted[t] > 0

Missing == Other("<missing>")

Field(t, key) == DictGet(built[t], key, Missing)

Reserved(key) == StartsWith(key, "otel") \/ key \in Denylist

\* what each fixed field is computed from: the record's constructor
\* arguments, its otel attributes, the environment and RESOURCE_ATTRS
ExpectedFixed(t, key) ==
    LET r == record[t]
    IN  CASE key = "@timestamp" -> S("T" \o ToString(r.created) \o "Z")
          [] key = "log.level" -> S(r.levelname)
          [] key = "message" -> S(r.msg)
          [] key = "logger.name" -> S(r.name)
          [] key = "trace.id" -> DictGet(r.otel, "otelTraceID", S(""))
          [] key = "span.id" -> DictGet(r.otel, "otelSpanID", S(""))
          [] key = "service.name" -> ServiceName(RecordDict(r), env, app)
          [] key = "host.name" -> S(Getenv(env, "HOSTNAME", ""))
          [] key = "event.dataset" ->
                 S(ServiceName(RecordDict(r), env, app).text \o ".log")
          [] OTHER -> S(DictGet(RESOURCE_ATTRS, key, ""))

\* C1: in every record format builds, each of the twelve fixed fields holds
\* the value computed from the event and the ambient context, also when the
\* event carries an attribute of that very name, whose value never shows
\* under the key.
C1_FixedFieldsWin ==
    \A t \in Threads :
        Returned(t) =>
            \A key \in FixedNames :
                /\ DictHas(built[t], key)
                /\ Field(t, key) = ExpectedFixed(t, key)
                /\ DictHas(record[t].extra, key) =>
                       Field(t, key) # DictGet(record[t].extra, key, Missing)

C1_Witness ==
    \E t \in Threads :
        /\ Returned(t)
        /\ \E key \in FixedNames : DictHas(record[t].extra, key)

\* C2: in every record format builds, event.dataset is the record's own
\* service.name followed by ".log", whether the name is the per-event
\* override or the process's, and whatever attributes the event carries.
C2_DatasetFollowsServiceName ==
    \A t \in Threads :
        Returned(t) =>
            /\ Field(t, "service.name") # Missing
            /\ Field(t, "event.dataset") =
                   S(Field(t, "service.name").text \o ".log")

C2_Witness ==
    \E t \in Threads :
        /\ Returned(t)
        /\ DictGet(record[t].otel, "otelServiceName", S("")) = S("edge")
        /\ DictHas(record[t].extra, "event.dataset")
        /\ DictHas(record[t].extra, "service.name")

\* C3 (as claimed): the keys of the record format builds are exactly the
\* twelve fixed names and the attributes of the call's extra= mapping that
\* are neither fixed names nor reserved.
C3_KeysExactlyFixedAndSupplied ==
    \A t \in Threads :
        Returned(t) =>
            DictKeys(built[t]) =
                FixedNames \cup
                {key \in DictKeys(record[t].extra) :
                    key \notin FixedNames /\ ~Reserved(key)}

\* C4 (as claimed): a record logged while no span is active has empty
\* trace.id and span.id.
C4_NoSpanEmptyIds ==
    \A t \in Threads :
        (Returned(t) /\ ~span[t]) =>
            /\ Field(t, "trace.id") = S("")
            /\ Field(t, "span.id") = S("")

\* the record a format call builds when no other call runs beside it
FormatAlone(r) ==
    LET d == RecordDict(r)
    IN  Extend(FixedPayload(d, ServiceName(d, env, app), RESOURCE_ATTRS, env), d)

\* C6: when format calls of several threads interleave, each call builds
\* the record it would build alone: its own fixed fields, and extension
\* fields that are items of its own event only.
C6_NoCrossContamination ==
    \A t \in Threads :
        Returned(t) =>
            /\ built[t] = FormatAlone(record[t])
            /\ \A i \in 1..Len(built[t]) :
                   built[t][i][1] \notin FixedNames =>
                       \E j \in 1..Len(RecordDict(record[t])) :
                           RecordDict(record[t])[j] = built[t][i]

C6_Witness ==
    \E t, u \in Threads :
        /\ t # u
        /\ Returned(t)
        /\ tpc[u] = "loop"
        /\ record[t].extra # record[u].extra
        /\ record[t].extra # <<>>
        /\ record[u].extra # <<>>

\* C7 (as claimed): service.name is the event's otelServiceName attribute
\* whenever the event carries one, the process's service name otherwise.
C7_OverrideWheneverCarried ==
    \A t \in Threads :
        Returned(t) =>
            Field(t, "service.name") =
                IF DictHas(RecordDict(record[t]), "otelServiceName")
                THEN DictGet(RecordDict(record[t]), "otelServiceName", Missing)
                ELSE S(Getenv(env, "OTEL_SERVICE_NAME", app))

\* C7 (amended): service.name is the event's otelServiceName attribute
\* whenever the event carries a non-empty one, and the process's service
\* name (OTEL_SERVICE_NAME, else "backend" resp. "frontend") when the event
\* carries none or an empty one.
C7_NonEmptyOverrideWins ==
    \A t \in Threads :
        Returned(t) =>
            LET has == DictHas(RecordDict(record[t]), "otelServiceName")
                override == DictGet(RecordDict(record[t]), "otelServiceName", Missing)
            IN  Field(t, "service.name") =
                    IF has /\ override.text # "" THEN override
                    ELSE S(Getenv(env, "OTEL_SERVICE_NAME", app))

C7_Witness ==
    \E t \in Threads :
        /\ Returned(t)
        /\ DictHas(record[t].otel, "otelServiceName")
        /\ DictGet(record[t].otel, "otelServiceName", Missing) = S("")
        /\ DictHas(env, "OTEL_SERVICE_NAME")

\* C8: no key of a built record outside the twelve fixed fields starts with
\* "otel" or is on the denylist, and every other attribute of the event
\* that collides with no fixed field is there under its key, value unchanged.
C8_ReservedKeysNeverLeak ==
    \A t \in Threads :
        Returned(t) =>
            /\ \A key \in DictKeys(built[t]) \ FixedNames : ~Reserved(key)
            /\ \A i \in 1..Len(RecordDict(record[t])) :
                   LET item == RecordDict(record[t])[i]
                   IN  (item[1] \notin FixedNames /\ ~Reserved(item[1])) =>
                           Field(t, item[1]) = item[2]

C8_Witness ==
    \E t \in Threads :
        /\ Returned(t)
        /\ DictHas(record[t].extra, "otelFoo")
        /\ DictHas(record[t].extra, "hotel")
        /\ DictHas(record[t].otel, "otelTraceID")

\* C9: once module initialisation has set RESOURCE_ATTRS, no format call
\* and no logging call changes it: it stays the value parsed from
\* OTEL_RESOURCE_ATTRIBUTES, and every record carries its service.version,
\* service.namespace and deployment.environment.
C9_ResourceAttrsFrozen ==
    LET startup ==
            parse_resource_attributes(Getenv(env, "OTEL_RESOURCE_ATTRIBUTES", ""))
    IN  mpc \in {"handlers", "serving"} =>
            /\ RESOURCE_ATTRS = startup
            /\ \A t \in Threads :
                   Returned(t) =>
                       \A key \in {"service.version", "service.namespace",
                                   "deployment.environment"} :
                           Field(t, key) = S(DictGet(startup, key, ""))

C9_Witness ==
    /\ mpc = "serving"
    /\ RESOURCE_ATTRS # <<>>
    /\ \A t \in Threads : Returned(t)

\* C10: after module initialisation the root logger has exactly one
\* handler, the StreamHandler with JsonFormatter, the OTLP LoggingHandler
\* of setup_otel being gone; every event a route handler logs is formatted
\* by JsonFormatter exactly once and reaches no other handler.
C10_OnlyJsonHandler ==
    mpc = "serving" =>
        /\ root_handlers = <<JsonHandler>>
        /\ \A t \in Threads :
               tpc[t] = "done" => (formatted[t] = 1 /\ exported[t] = 0)

C10_Witness ==
    /\ mpc = "serving"
    /\ OtlpHandler \notin {root_handlers[i] : i \in 1..Len(root_handlers)}
    /\ \E t \in Threads : tpc[t] = "done" /\ formatted[t] = 1

-----------------------------------------------------------------------------
(* parse_resource_attributes against its description *)

Commas(s) == {i \in 1..Len(s) : Char(s, i) = ","}

\* the segment that starts after position p (0, or the place of a comma)
Segment(s, p) ==
    SubSeq(s, p + 1, Min({c \in Commas(s) : c > p} \cup {Len(s) + 1}) - 1)

Trimmed(s) ==
    LET kept == {i \in 1..Len(s) : Char(s, i) # " "}
    IN  IF kept = {} THEN "" ELSE SubSeq(s, Min(kept), Max(kept))

Equals(s) == {i \in 1..Len(s) : Char(s, i) = "="}

\* the segments that are kept: not empty after trimming, with an "="
Kept(s) ==
    {p \in {0} \cup Commas(s) :
        Trimmed(Segment(s, p)) # "" /\ Equals(Trimmed(Segment(s, p))) # {}}

KeyAt(s, p) ==
    LET seg == Trimmed(Segment(s, p))
    IN  Trimmed(SubSeq(seg, 1, Min(Equals(seg)) - 1))

ValueAt(s, p) ==
    LET seg == Trimmed(Segment(s, p))
    IN  Trimmed(SubSeq(seg, Min(Equals(seg)) + 1, Len(seg)))

\* C5: parse_resource_attributes returns the mapping of the kept segments
\* of the string, each cut at its first "=", key and value trimmed, a later
\* occurrence of a key winning over an earlier one; "a=1,b=2" gives
\* {a: "1", b: "2"} and "bad,,x=" gives {x: ""}.
C5_ParseIsLastWinsMapping ==
    ppc = "returned" =>
        /\ DictKeys(parsed) = {KeyAt(raw, p) : p \in Kept(raw)}
        /\ Cardinality(DictKeys(parsed)) = Len(parsed)
        /\ \A key \in DictKeys(parsed) :
               DictGet(parsed, key, "") =
                   ValueAt(raw, Max({p \in Kept(raw) : KeyAt(raw, p) = key}))
        /\ raw = "a=1,b=2" => parsed = << <<"a", "1">>, <<"b", "2">> >>
        /\ raw = "bad,,x=" => parsed = << <<"x", "">> >>

C5_Witness ==
    /\ ppc = "returned"
    /\ raw = "a==,a=a"
    /\ parsed = << <<"a", "a">> >>

====
